---- MODULE Spec2Model ----
(***************************************************************************)
(* The reactive derivation pipeline of mnf-app/app.py: the dataset loaded  *)
(* at startup, the two inputs (ticker, dates), the three cached calcs      *)
(* (get_data, get_change, get_change_percent) and the rendered outputs     *)
(* price, change, change_percent, price_history and latest_data.           *)
(*                                                                         *)
(* Numbers are exact rationals [n, d] in lowest terms with d > 0; the      *)
(* float specials are the zero-denominator fractions: 0/0 is NaN, 1/0 is   *)
(* +inf and -1/0 is -inf.  Dates are day numbers.                          *)
(***************************************************************************)
EXTENDS Integers, Sequences, FiniteSets

VARIABLES
    data_all,   \* the frame read from data.csv at load time
    ticker,     \* input.ticker()
    dates,      \* input.dates(): <<start, end>>
    gd,         \* cache of the calc get_data: [valid, value]
    gc,         \* cache of the calc get_change
    gp,         \* cache of the calc get_change_percent
    out,        \* what each output currently displays
    pending,    \* the outputs invalidated and not yet rendered again
    flushing    \* TRUE from the first render of a flush to its last

vars == <<data_all, ticker, dates, gd, gc, gp, out, pending, flushing>>

----------------------------------------------------------------------------
(* Bounds of the explored datasets.                                        *)

\* longest dataset of the exhaustive family
MaxRows == 2

\* longest dataset of the moving-average family
LongRows == 8

----------------------------------------------------------------------------
(* Program constants.                                                      *)

\* rolling(window=7)
Window == 7

\* if len(df) >= 7
MinOverlayLen == 7

\* pd.Timedelta(weeks=12), in days
TwelveWeeks == 84

----------------------------------------------------------------------------
(* Rational arithmetic with the float specials.                            *)

Abs(i) == IF i < 0 THEN 0 - i ELSE i

Sgn(i) == IF i < 0 THEN 0 - 1 ELSE IF i > 0 THEN 1 ELSE 0

RECURSIVE GCD(_, _)
GCD(a, b) == IF b = 0 THEN a ELSE GCD(b, a % b)

\* the fraction n/d in lowest terms; d = 0 gives NaN or a signed infinity
Q(n, d) ==
    IF d = 0 THEN [n |-> Sgn(n), d |-> 0]
    ELSE LET g == GCD(Abs(n), Abs(d))
         IN  [n |-> (Sgn(d) * n) \div g, d |-> Abs(d) \div g]

Zero == Q(0, 1)

NaN == Q(0, 0)

IsFinite(q) == q.d # 0

IsNaN(q) == q.d = 0 /\ q.n = 0

\* a - b on finite values
RSub(a, b) == Q(a.n * b.d - b.n * a.d, a.d * b.d)

\* a + b on finite values
RAdd(a, b) == Q(a.n * b.d + b.n * a.d, a.d * b.d)

\* a / b as numpy divides: x/0 is a signed infinity, 0/0 is NaN
RDiv(a, b) ==
    IF ~IsFinite(a) THEN a
    ELSE IF b.n = 0 THEN Q(a.n, 0)
    ELSE Q(a.n * b.d, a.d * b.n)

\* a * k for an integer k > 0; infinities and NaN stay what they are
RScale(a, k) == IF IsFinite(a) THEN Q(a.n * k, a.d) ELSE a

----------------------------------------------------------------------------
(* Display formatting.                                                     *)

\* the shape of every formatted value
Fmt(kind, neg, whole, frac, text) ==
    [kind |-> kind, neg |-> neg, whole |-> whole, frac |-> frac, text |-> text]

\* f"{v:.2f}": sign, then the magnitude rounded half-to-even to hundredths
\* (the rounding of the exact value; a binary float differs from it only on
\* ties at the third decimal that have no exact binary form)
Format2f(v) ==
    IF IsNaN(v) THEN Fmt("nan", FALSE, 0, 0, "nan")
    ELSE IF ~IsFinite(v) THEN Fmt("inf", v.n < 0, 0, 0, "inf")
    ELSE LET num == Abs(v.n) * 100
             m   == num \div v.d
             r   == num % v.d
             up  == 2 * r > v.d \/ (2 * r = v.d /\ m % 2 = 1)
             h   == IF up THEN m + 1 ELSE m
         IN  Fmt("fixed", v.n < 0, h \div 100, h % 100, "")

\* str(v) of a string cell
StrOfText(s) == Fmt("str", FALSE, 0, 0, s)

\* str(v) of a Timestamp cell: the day at midnight
StrOfTimestamp(day) == Fmt("timestamp", FALSE, day, 0, "00:00:00")

NotAvailable == Fmt("text", FALSE, 0, 0, "N/A")

----------------------------------------------------------------------------
(* Data frames: a column list and labelled rows.                           *)

\* the dtype of each column after read_csv and to_datetime
ColKind(c) ==
    IF c = "Date" THEN "date"
    ELSE IF c = "Ticker" THEN "str"
    ELSE "num"

ColsFull == <<"Date", "Ticker", "Open", "High", "Low", "Close", "Volume">>

ColsNoTicker == <<"Date", "Open", "High", "Low", "Close", "Volume">>

ColsMinimal == <<"Date", "Close">>

\* "c" in df.columns
HasColumn(df, c) == \E k \in 1..Len(df.columns) : df.columns[k] = c

\* df[c] as the sequence of its values, in row order
Column(df, c) == [k \in 1..Len(df.recs) |-> df.recs[k].row[c]]

\* a frame from rows, labelled by position as read_csv labels them
Frame(cols, rows) ==
    [columns |-> cols,
     recs    |-> [k \in 1..Len(rows) |-> [idx |-> k, row |-> rows[k]]]]

\* one CSV line of each shape
RowFull(day, tk, close) ==
    [Date |-> day, Ticker |-> tk, Open |-> Q(1, 2), High |-> Q(211, 2),
     Low |-> Zero, Close |-> close, Volume |-> Q(12345, 10)]

RowNoTicker(day, close) ==
    [Date |-> day, Open |-> Q(1, 2), High |-> Q(211, 2),
     Low |-> Zero, Close |-> close, Volume |-> Q(12345, 10)]

RowMinimal(day, close) == [Date |-> day, Close |-> close]

\* data_all["Date"].max()
MaxDate(df) ==
    CHOOSE m \in {df.recs[k].row.Date : k \in 1..Len(df.recs)} :
        \A k \in 1..Len(df.recs) : df.recs[k].row.Date <= m

\* data_all["Ticker"].unique().tolist(), or ["LOCAL"]
tickers(df) ==
    IF HasColumn(df, "Ticker")
    THEN LET col == Column(df, "Ticker")
             first(k) == \A j \in 1..(k - 1) : col[j] # col[k]
             keep == {k \in 1..Len(col) : first(k)}
             rank(k) == Cardinality({j \in keep : j <= k})
         IN  [i \in 1..Cardinality(keep) |-> col[CHOOSE k \in keep : rank(k) = i]]
    ELSE <<"LOCAL">>

----------------------------------------------------------------------------
(* get_data: the filter stage.                                             *)

\* df[df["Ticker"] == t]
FilterTicker(df, t) ==
    [df EXCEPT !.recs = SelectSeq(@, LAMBDA r : r.row.Ticker = t)]

\* faulty variant: the end date is left out of the window
FilterDatesExclusive(df, s, e) ==
    [df EXCEPT !.recs = SelectSeq(@, LAMBDA r : r.row.Date >= s /\ r.row.Date < e)]

\* df.loc[(df["Date"] >= s) & (df["Date"] <= e)]
FilterDates(df, s, e) ==
    [df EXCEPT !.recs = SelectSeq(@, LAMBDA r : r.row.Date >= s /\ r.row.Date <= e)]

\* every arrangement of the records S that is ascending by Date
RECURSIVE SortedOrders(_)
SortedOrders(S) ==
    IF S = {} THEN {<<>>}
    ELSE LET firsts == {r \in S : \A q \in S : r.row.Date <= q.row.Date}
         IN  UNION {{<<r>> \o rest : rest \in SortedOrders(S \ {r})} : r \in firsts}

\* df.sort_values("Date") with the default kind="quicksort", which is not a
\* stable sort: rows of equal Date may come out in any order
SortValuesDate(df) ==
    {[df EXCEPT !.recs = o] :
        o \in SortedOrders({df.recs[k] : k \in 1..Len(df.recs)})}

\* the frames one evaluation of get_data may return
get_data(D, t, dts) ==
    LET df1 == IF HasColumn(D, "Ticker") THEN FilterTicker(D, t) ELSE D
    IN  SortValuesDate(FilterDates(df1, dts[1], dts[2]))

----------------------------------------------------------------------------
(* get_change and get_change_percent: the metrics stage.                   *)

\* faulty variant: a short series gives NaN instead of 0
get_change_nan_short(df) ==
    LET close == Column(df, "Close")
        n     == Len(close)
    IN  IF n > 1 THEN RSub(close[n], close[n - 1]) ELSE NaN

get_change(df) ==
    LET close == Column(df, "Close")
        n     == Len(close)
    IN  IF n > 1 THEN RSub(close[n], close[n - 1]) ELSE Zero

\* faulty variant: the change is divided by the last close
get_change_percent_over_last(df) ==
    LET close == Column(df, "Close")
        n     == Len(close)
    IN  IF n > 1
        THEN LET chg == RSub(close[n], close[n - 1])
             IN  RScale(RDiv(chg, close[n]), 100)
        ELSE Zero

get_change_percent(df) ==
    LET close == Column(df, "Close")
        n     == Len(close)
    IN  IF n > 1
        THEN LET chg == RSub(close[n], close[n - 1])
             IN  RScale(RDiv(chg, close[n - 1]), 100)
        ELSE Zero

----------------------------------------------------------------------------
(* The render functions.                                                   *)

\* price(): the last close, or "N/A"
price(df) ==
    LET close == Column(df, "Close")
    IN  IF Len(close) > 0 THEN Format2f(close[Len(close)]) ELSE NotAvailable

\* change(): f"${get_change():.2f}"
change(chg) == [prefix |-> "$", body |-> Format2f(chg), suffix |-> ""]

\* change_percent(): f"{get_change_percent():.2f}%"
change_percent(pct) == [prefix |-> "", body |-> Format2f(pct), suffix |-> "%"]

\* faulty variant: no row ever leaves the window
RECURSIVE RollSumExpanding(_, _, _)
RollSumExpanding(xs, w, i) ==
    IF i = 0 THEN Zero ELSE RAdd(RollSumExpanding(xs, w, i - 1), xs[i])

\* the running window sum after row i, as rolling() keeps it: each row is
\* added, and the row that left the window is taken out again
RECURSIVE RollSum(_, _, _)
RollSum(xs, w, i) ==
    IF i = 0 THEN Zero
    ELSE LET added == RAdd(RollSum(xs, w, i - 1), xs[i])
         IN  IF i > w THEN RSub(added, xs[i - w]) ELSE added

\* the number of rows in the window after row i
RollCount(w, i) == IF i > w THEN w ELSE i

\* xs.rolling(window=w).mean(): NaN until the window holds w rows
RollingMean(xs, w) ==
    [i \in 1..Len(xs) |->
        IF RollCount(w, i) >= w
        THEN RDiv(RollSum(xs, w, i), Q(RollCount(w, i), 1))
        ELSE NaN]

\* the figure: one candlestick trace and, from 7 rows on, the SMA trace
Figure(status, name, x, o, h, l, c, hasSMA, smaX, smaY) ==
    [status |-> status, name |-> name, x |-> x, open |-> o, high |-> h,
     low |-> l, close |-> c, hasSMA |-> hasSMA, smaX |-> smaX, smaY |-> smaY]

\* price_history(); df["Open"] of a frame without that column raises
price_history(df, tk) ==
    IF ~(HasColumn(df, "Open") /\ HasColumn(df, "High") /\ HasColumn(df, "Low"))
    THEN Figure("KeyError", "", <<>>, <<>>, <<>>, <<>>, <<>>, FALSE, <<>>, <<>>)
    ELSE LET x   == Column(df, "Date")
             sma == Len(df.recs) >= MinOverlayLen
         IN  Figure("ok", tk, x, Column(df, "Open"), Column(df, "High"),
                    Column(df, "Low"), Column(df, "Close"), sma,
                    IF sma THEN x ELSE <<>>,
                    IF sma THEN RollingMean(Column(df, "Close"), Window) ELSE <<>>)

\* the lambda of latest_data: numbers as .2f, everything else as str(v)
FormatValue(c, v) ==
    IF ColKind(c) = "num" THEN Format2f(v)
    ELSE IF ColKind(c) = "date" THEN StrOfTimestamp(v)
    ELSE StrOfText(v)

\* faulty variant: the first row of the series is shown
latest_data_first(df) ==
    IF Len(df.recs) = 0 THEN <<>>
    ELSE LET latest == df.recs[1].row
         IN  [k \in 1..Len(df.columns) |->
                [Category |-> df.columns[k],
                 Value    |-> FormatValue(df.columns[k], latest[df.columns[k]])]]

\* latest_data(): the last row, transposed into (Category, Value) rows
latest_data(df) ==
    IF Len(df.recs) = 0 THEN <<>>
    ELSE LET latest == df.recs[Len(df.recs)].row
         IN  [k \in 1..Len(df.columns) |->
                [Category |-> df.columns[k],
                 Value    |-> FormatValue(df.columns[k], latest[df.columns[k]])]]

----------------------------------------------------------------------------
(* The reactive graph.                                                     *)

Calcs == {"get_data", "get_change", "get_change_percent"}

\* the outputs that show a pipeline artifact (change_icon, which only picks
\* an arrow for the sign of get_change, is left out)
Outputs == {"price", "change", "change_percent", "price_history", "latest_data"}

\* faulty variant: get_data reads the dates without depending on them
ReadsTickerOnly(node) ==
    CASE node = "get_data"           -> {"ticker"}
      [] node = "get_change"         -> {"get_data"}
      [] node = "get_change_percent" -> {"get_data"}
      [] node = "price"              -> {"get_data"}
      [] node = "change"             -> {"get_change"}
      [] node = "change_percent"     -> {"get_change_percent"}
      [] node = "price_history"      -> {"get_data", "ticker"}
      [] node = "latest_data"        -> {"get_data"}
      [] OTHER                       -> {}

\* what each calc and each render function reads
Reads(node) ==
    CASE node = "get_data"           -> {"dates", "ticker"}
      [] node = "get_change"         -> {"get_data"}
      [] node = "get_change_percent" -> {"get_data"}
      [] node = "price"              -> {"get_data"}
      [] node = "change"             -> {"get_change"}
      [] node = "change_percent"     -> {"get_change_percent"}
      [] node = "price_history"      -> {"get_data", "ticker"}
      [] node = "latest_data"        -> {"get_data"}
      [] OTHER                       -> {}

\* the calcs and outputs that read node, directly or through a calc
RECURSIVE Dependents(_)
Dependents(node) ==
    LET direct == {m \in Calcs \cup Outputs : node \in Reads(m)}
    IN  direct \cup UNION {Dependents(m) : m \in direct}

\* a cached calc value
Cached(v) == [valid |-> TRUE, value |-> v]

\* a calc that has to run again; what it held is never read
Invalid(blank) == [valid |-> FALSE, value |-> blank]

NoFrame == [columns |-> <<>>, recs |-> <<>>]

NotRendered == [status |-> "not rendered"]

----------------------------------------------------------------------------
(* The datasets explored.                                                  *)

\* the CSV lines the datasets are made of: two instruments, two days, a
\* zero close, two lines of one instrument on one day
LinesFull ==
    {RowFull(1, "A", Zero), RowFull(2, "A", Q(100, 1)),
     RowFull(2, "A", Q(105, 1)), RowFull(1, "B", Q(100, 1))}

LinesNoTicker ==
    {RowNoTicker(1, Zero), RowNoTicker(2, Q(100, 1)), RowNoTicker(2, Q(105, 1))}

LinesMinimal == {RowMinimal(1, Q(100, 1)), RowMinimal(2, Q(105, 1))}

Days == {1, 2}

TickerUniverse == {"A", "B"}

\* the nonempty sequences over S of length at most n
SeqsUpTo(S, n) == UNION {[1..k -> S] : k \in 1..n}

\* every dataset of at most MaxRows lines, in each of the three shapes
Datasets ==
    {Frame(ColsFull, rows) : rows \in SeqsUpTo(LinesFull, MaxRows)}
    \cup {Frame(ColsNoTicker, rows) : rows \in SeqsUpTo(LinesNoTicker, MaxRows)}
    \cup {Frame(ColsMinimal, rows) : rows \in SeqsUpTo(LinesMinimal, MaxRows)}

\* one instrument, n rows on n distinct days stored latest first; the close
\* of day d is d, raised by 10 on day a
LongDataset(n, a) ==
    Frame(ColsFull,
          [k \in 1..n |->
              LET d == n + 1 - k
              IN  RowFull(d, "A", Q(d + (IF d = a THEN 10 ELSE 0), 1))])

LongDatasets ==
    {LongDataset(n, a) : n \in (MinOverlayLen - 1)..LongRows, a \in 0..LongRows}

\* the values the selectize input may send
TickerChoices(D) ==
    TickerUniverse \cup {tickers(D)[k] : k \in 1..Len(tickers(D))}

\* the days the date-range input may send
DayChoices(D) == Days \cup {MaxDate(D)}

----------------------------------------------------------------------------
(* State after construction: the inputs hold their defaults, no calc has   *)
(* run and every output waits for its first render.                        *)

Start(D) ==
    /\ data_all = D
    /\ ticker = tickers(D)[1]
    /\ dates = <<MaxDate(D) - TwelveWeeks, MaxDate(D)>>
    /\ gd = Invalid(NoFrame)
    /\ gc = Invalid(Zero)
    /\ gp = Invalid(Zero)
    /\ out = [o \in Outputs |-> NotRendered]
    /\ pending = Outputs
    /\ flushing = FALSE

Init == \E D \in Datasets : Start(D)

InitLong == \E D \in LongDatasets : Start(D)

----------------------------------------------------------------------------
(* Input changes.  They arrive between flushes only.                       *)

Invalidate(input) ==
    LET dep == Dependents(input)
    IN  /\ gd' = IF "get_data" \in dep THEN Invalid(NoFrame) ELSE gd
        /\ gc' = IF "get_change" \in dep THEN Invalid(Zero) ELSE gc
        /\ gp' = IF "get_change_percent" \in dep THEN Invalid(Zero) ELSE gp
        /\ pending' = pending \cup (dep \cap Outputs)

SetTicker ==
    /\ ~flushing
    /\ \E t \in TickerChoices(data_all) \ {ticker} : ticker' = t
    /\ Invalidate("ticker")
    /\ UNCHANGED <<data_all, dates, out, flushing>>

SetDates ==
    /\ ~flushing
    /\ \E s \in DayChoices(data_all), e \in DayChoices(data_all) :
          /\ <<s, e>> # dates
          /\ dates' = <<s, e>>
    /\ Invalidate("dates")
    /\ UNCHANGED <<data_all, ticker, out, flushing>>

----------------------------------------------------------------------------
(* The flush: every pending output runs once; a calc it reads runs when    *)
(* its cache is invalid and answers from the cache otherwise.              *)

\* get_data() as a reactive.calc
PullData == IF gd.valid THEN {gd.value} ELSE get_data(data_all, ticker, dates)

\* get_change() as a reactive.calc, over the frame get_data() gave
PullChange(df) == IF gc.valid THEN gc.value ELSE get_change(df)

\* get_change_percent() as a reactive.calc
PullChangePercent(df) == IF gp.valid THEN gp.value ELSE get_change_percent(df)

Show(o, v) ==
    /\ o \in pending
    /\ out' = [out EXCEPT ![o] = v]
    /\ pending' = pending \ {o}
    /\ flushing' = (pending' # {})
    /\ UNCHANGED <<data_all, ticker, dates>>

RenderPrice ==
    \E df \in PullData :
        /\ gd' = Cached(df)
        /\ Show("price", price(df))
        /\ UNCHANGED <<gc, gp>>

RenderChange ==
    \E df \in PullData :
        /\ gd' = Cached(df)
        /\ gc' = Cached(PullChange(df))
        /\ Show("change", change(PullChange(df)))
        /\ UNCHANGED gp

RenderChangePercent ==
    \E df \in PullData :
        /\ gd' = Cached(df)
        /\ gp' = Cached(PullChangePercent(df))
        /\ Show("change_percent", change_percent(PullChangePercent(df)))
        /\ UNCHANGED gc

RenderPriceHistory ==
    \E df \in PullData :
        /\ gd' = Cached(df)
        /\ Show("price_history", price_history(df, ticker))
        /\ UNCHANGED <<gc, gp>>

RenderLatestData ==
    \E df \in PullData :
        /\ gd' = Cached(df)
        /\ Show("latest_data", latest_data(df))
        /\ UNCHANGED <<gc, gp>>

Next ==
    \/ SetTicker
    \/ SetDates
    \/ RenderPrice
    \/ RenderChange
    \/ RenderChangePercent
    \/ RenderPriceHistory
    \/ RenderLatestData

Spec == Init /\ [][Next]_vars

SpecLong == InitLong /\ [][Next]_vars

----------------------------------------------------------------------------
(* Vocabulary of the properties.                                           *)

\* the frame get_data holds, and its closes in row order
Series == gd.value

Closes == Column(gd.value, "Close")

Shown(o) == o \notin pending

\* the labels of the dataset rows the current selection asks for
Wanted ==
    {k \in 1..Len(data_all.recs) :
        /\ dates[1] <= data_all.recs[k].row.Date
        /\ data_all.recs[k].row.Date <= dates[2]
        /\ HasColumn(data_all, "Ticker") => data_all.recs[k].row.Ticker = ticker}

\* value equality of two fractions given as numerator and denominator
SameFraction(q, n, d) == q.d # 0 /\ d # 0 /\ q.n * d = n * q.d

RECURSIVE SumRange(_, _, _)
SumRange(xs, lo, hi) ==
    IF lo > hi THEN Zero ELSE RAdd(xs[hi], SumRange(xs, lo, hi - 1))

----------------------------------------------------------------------------
\* C1: the frame get_data returns holds exactly the dataset rows whose Date
\* lies in [start, end], both ends included, and whose Ticker is the selected
\* one when the dataset has a Ticker column (every row in range when it has
\* none): each such row once, unchanged, and no other row.
C1_FilterExact ==
    gd.valid =>
        /\ Series.columns = data_all.columns
        /\ {Series.recs[k].idx : k \in 1..Len(Series.recs)} = Wanted
        /\ Len(Series.recs) = Cardinality(Wanted)
        /\ \A k \in 1..Len(Series.recs) :
              Series.recs[k].row = data_all.recs[Series.recs[k].idx].row

\* a one-day window on a dataset with two instruments keeps the row of the
\* selected instrument on that day and drops the other row
C1_Witness ==
    /\ gd.valid
    /\ HasColumn(data_all, "Ticker")
    /\ dates[1] = dates[2]
    /\ Len(Series.recs) = 1
    /\ Len(data_all.recs) = 2
    /\ Series.recs[1].row.Date = dates[1]

----------------------------------------------------------------------------
\* C2: on a series of at least two rows whose second-to-last close is not
\* zero, get_change is the last close minus the second-to-last and
\* get_change_percent is that difference over the second-to-last close times
\* 100, both exact; rounding happens only in the displayed strings.
C2_ChangeArithmetic ==
    (gd.valid /\ Len(Closes) >= 2 /\ Closes[Len(Closes) - 1].n # 0) =>
        LET last == Closes[Len(Closes)]
            prev == Closes[Len(Closes) - 1]
            dn   == last.n * prev.d - prev.n * last.d
            dd   == last.d * prev.d
        IN  /\ gc.valid => SameFraction(gc.value, dn, dd)
            /\ gp.valid => SameFraction(gp.value, 100 * dn * prev.d, dd * prev.n)
            /\ (gc.valid /\ Shown("change")) =>
                  out.change = change(Q(dn, dd))
            /\ (gp.valid /\ Shown("change_percent")) =>
                  out.change_percent = change_percent(Q(100 * dn * prev.d, dd * prev.n))

\* closes [100, 105] give change 5 and percent change 5
C2_Witness ==
    /\ gd.valid /\ gc.valid /\ gp.valid
    /\ Closes = <<Q(100, 1), Q(105, 1)>>
    /\ gc.value = Q(5, 1)
    /\ gp.value = Q(5, 1)

----------------------------------------------------------------------------
\* C3: on a series of fewer than two rows get_change and get_change_percent
\* both return exactly 0.
C3_ShortSeriesZero ==
    (gd.valid /\ Len(Closes) < 2) =>
        /\ gc.valid => gc.value = Q(0, 1)
        /\ gp.valid => gp.value = Q(0, 1)

\* a series of one row, both metrics computed
C3_Witness == gd.valid /\ gc.valid /\ gp.valid /\ Len(Closes) = 1

----------------------------------------------------------------------------
\* C4: get_change_percent never returns NaN, and the percent-change display
\* never shows a special float, also when the second-to-last close is 0.
C4_ZeroDivisorPolicy ==
    /\ gp.valid => ~IsNaN(gp.value)
    /\ out.change_percent # NotRendered => out.change_percent.body.kind = "fixed"

----------------------------------------------------------------------------
\* C5: the figure of price_history carries no SMA trace when the series has
\* fewer than 7 rows; from 7 rows on the SMA trace has one value per
\* candlestick point, in the same order, absent (NaN) at the first 6 points
\* and from the 7th on equal to the plain mean of the closes of that row and
\* the 6 rows before it.
C5_MovingAverage ==
    (gd.valid /\ Shown("price_history") /\ out.price_history.status = "ok") =>
        LET fig == out.price_history
            n   == Len(Series.recs)
        IN  /\ fig.x = Column(Series, "Date")
            /\ fig.close = Closes
            /\ n < 7 => ~fig.hasSMA /\ fig.smaX = <<>> /\ fig.smaY = <<>>
            /\ n >= 7 =>
                  /\ fig.hasSMA
                  /\ fig.smaX = fig.x
                  /\ Len(fig.smaY) = n
                  /\ \A i \in 1..6 : IsNaN(fig.smaY[i])
                  /\ \A i \in 7..n :
                        LET sum == SumRange(Closes, i - 6, i)
                        IN  SameFraction(fig.smaY[i], sum.n, 7 * sum.d)

\* closes 1..8 in date order: the SMA is 4 at the 7th point and 5 at the 8th
C5_Witness ==
    /\ gd.valid /\ Shown("price_history")
    /\ Closes = [i \in 1..8 |-> Q(i, 1)]
    /\ out.price_history.hasSMA
    /\ out.price_history.smaY[7] = Q(4, 1)
    /\ out.price_history.smaY[8] = Q(5, 1)

----------------------------------------------------------------------------
\* C6: the frame get_data returns is in ascending Date order, and rows of
\* equal Date keep the order they have in the dataset (stable sort).
C6_StableAscending ==
    gd.valid =>
        \A i, j \in 1..Len(Series.recs) :
            i < j =>
                /\ Series.recs[i].row.Date <= Series.recs[j].row.Date
                /\ Series.recs[i].row.Date = Series.recs[j].row.Date
                      => Series.recs[i].idx < Series.recs[j].idx

----------------------------------------------------------------------------
\* C7: filtering the frame get_data returned, with the same ticker and
\* dates, returns the same rows in the same order.
C7_FilterIdempotent ==
    gd.valid =>
        LET rowsOf(df) == [k \in 1..Len(df.recs) |-> df.recs[k].row]
            again == get_data(Frame(Series.columns, rowsOf(Series)), ticker, dates)
        IN  \A df \in again : rowsOf(df) = rowsOf(Series)

----------------------------------------------------------------------------
\* C8: no stage raises.  A ticker that matches no row, or start > end, gives
\* an empty frame; on an empty frame change and percent change are 0, price
\* is "N/A", the figure has no points and no SMA trace and the snapshot is
\* empty; and no output raises on a dataset without Open/High/Low or without
\* Ticker.
C8_NoStageRaises ==
    /\ (gd.valid /\ (dates[1] > dates[2] \/ Wanted = {})) => Series.recs = <<>>
    /\ (gd.valid /\ Series.recs = <<>>) =>
          /\ gc.valid => gc.value = Zero
          /\ gp.valid => gp.value = Zero
          /\ Shown("price") => out.price = NotAvailable
          /\ Shown("latest_data") => out.latest_data = <<>>
          /\ Shown("price_history") =>
                /\ out.price_history.x = <<>>
                /\ ~out.price_history.hasSMA
    /\ out.price_history # NotRendered => out.price_history.status = "ok"

----------------------------------------------------------------------------
\* C9: latest_data is empty on an empty series; otherwise it has one
\* (Category, Value) row per dataset column, in column order, taken from the
\* last row of the series: a number as its value rounded to two decimals,
\* anything else as its string form.
C9_LatestSnapshot ==
    (gd.valid /\ Shown("latest_data")) =>
        LET snap == out.latest_data
            n    == Len(Series.recs)
        IN  /\ n = 0 => snap = <<>>
            /\ n > 0 =>
                  /\ Len(snap) = Len(data_all.columns)
                  /\ \A k \in 1..Len(snap) :
                        LET c == data_all.columns[k]
                            v == Series.recs[n].row[c]
                            f == snap[k].Value
                        IN  /\ snap[k].Category = c
                            /\ ColKind(c) = "num" =>
                                  /\ f.kind = "fixed"
                                  /\ f.frac \in 0..99
                                  /\ f.neg = (v.n < 0)
                                  /\ LET h == 100 * f.whole + f.frac
                                         e == h * v.d - 100 * Abs(v.n)
                                     IN  2 * Abs(e) <= v.d
                            /\ ColKind(c) = "str" => f = StrOfText(v)
                            /\ ColKind(c) = "date" => f = StrOfTimestamp(v)

\* two rows stored latest first: the snapshot shows the row of the later
\* day, its Close of 105 as 105.00 and its Volume of 1234.5 as 1234.50
C9_Witness ==
    /\ gd.valid /\ Shown("latest_data")
    /\ Len(Series.recs) = 2
    /\ Series.recs[2].idx = 1
    /\ \E k \in 1..Len(out.latest_data) :
          /\ out.latest_data[k].Category = "Volume"
          /\ out.latest_data[k].Value = Fmt("fixed", FALSE, 1234, 50, "")
    /\ \E k \in 1..Len(out.latest_data) :
          /\ out.latest_data[k].Category = "Close"
          /\ out.latest_data[k].Value = Fmt("fixed", FALSE, 105, 0, "")

----------------------------------------------------------------------------
\* C10: whenever no output is left to render, every displayed artifact is
\* its stage applied to one and the same frame, and that frame is a filter
\* of the dataset under the selection now in force; the dataset itself is
\* never changed by any step.
C10_Settled ==
    pending = {} =>
        /\ gd.valid
        /\ Series \in get_data(data_all, ticker, dates)
        /\ out.price = price(Series)
        /\ out.change = change(get_change(Series))
        /\ out.change_percent = change_percent(get_change_percent(Series))
        /\ out.price_history = price_history(Series, ticker)
        /\ out.latest_data = latest_data(Series)

C10_LastSelectionWins == [](C10_Settled) /\ [][data_all' = data_all]_vars

\* settled again after the viewer changed both the ticker and the dates
C10_Witness ==
    /\ pending = {}
    /\ ticker # tickers(data_all)[1]
    /\ dates[1] >= 1
    /\ Len(Series.recs) > 0

====
